---- MODULE Spec2Model ----
(***************************************************************************)
(* Sudokode: text encoded as sudoku grids (src/sudokode.py).               *)
(*                                                                         *)
(* Characters are modelled by their code points: the alphabet '1'..'9' is  *)
(* 49..57, the blank ' ' is 32 and the marker '*' is 42, so ord() is the   *)
(* identity and sorted() is numeric order.  The payload `bits` is a Python *)
(* int of arbitrary precision; it is modelled as a sequence of limbs in    *)
(* base LimbBase, most significant first, without leading zeros (0 is the  *)
(* empty sequence).  The recursion of solution_exists is run on an         *)
(* explicit call stack, one frame per active call.  In Spec and SpecDet    *)
(* one cell of encode_block or decode_block, with its search, is one step; *)
(* in SpecSteps every call, return and resumption of the search is a step. *)
(***************************************************************************)
EXTENDS Integers, Sequences, FiniteSets, TLC

\* ------------------------------------------------------------------ bounds
MaxLen == 2
LongLen == 11

\* ------------------------------------------------------- program constants
Side == 9
Box == 3
NumCells == 81
CharBase == 128
Blank == 32
Star == 42
LimbBase == 10000

alphabet == <<49, 50, 51, 52, 53, 54, 55, 56, 57>>
Alphabet == {alphabet[i] : i \in 1..Side}
Idx == 0..(Side - 1)

\* --------------------------------------------------- arbitrary-size integers
BigNorm(b) ==
  IF \A i \in 1..Len(b) : b[i] = 0 THEN <<>>
  ELSE SubSeq(b, CHOOSE i \in 1..Len(b) : b[i] # 0 /\ \A j \in 1..(i - 1) : b[j] = 0, Len(b))

\* The mutant: the digit is taken with %, the payload is left undivided.
BigDivMod_undivided(b, m) ==
  LET F[i \in 0..Len(b)] ==
        IF i = 0 THEN 0 ELSE (F[i - 1] * LimbBase + b[i]) % m
  IN [q |-> b, r |-> F[Len(b)]]

\* divmod(b, m) for a small m > 0: long division, most significant limb first
BigDivMod(b, m) ==
  LET F[i \in 0..Len(b)] ==
        IF i = 0 THEN [q |-> <<>>, r |-> 0]
        ELSE LET p == F[i - 1]
                 cur == p.r * LimbBase + b[i]
             IN [q |-> Append(p.q, cur \div m), r |-> cur % m]
  IN [q |-> BigNorm(F[Len(b)].q), r |-> F[Len(b)].r]

\* b * m + d for small m, d: schoolbook multiplication, least significant limb first
BigMulAdd(b, m, d) ==
  LET len == Len(b)
      G[i \in 0..len] ==
        IF i = 0 THEN [digits |-> <<>>, carry |-> d]
        ELSE LET p == G[i - 1]
                 cur == b[len - i + 1] * m + p.carry
             IN [digits |-> <<cur % LimbBase>> \o p.digits, carry |-> cur \div LimbBase]
  IN BigNorm(<<G[len].carry>> \o G[len].digits)

BigLess(a, b) ==
  \/ Len(a) < Len(b)
  \/ /\ Len(a) = Len(b)
     /\ \E i \in 1..Len(a) : a[i] < b[i] /\ \A j \in 1..(i - 1) : a[j] = b[j]

Reverse(s) == [i \in 1..Len(s) |-> s[Len(s) + 1 - i]]

\* ------------------------------------------------------------ cell geometry
square_containing_cell(r, c) == (r \div Box) * Box + c \div Box

cell_indices(n) ==
  [r |-> n \div Side, c |-> n % Side, s |-> square_containing_cell(n \div Side, n % Side)]

\* The generator as written: c0 = c = (c % 3) takes the column offset inside
\* the square for the square's first column.
cells_in_same_square(r, c) ==
  LET r0 == r - (r % Box)
      c0 == c % Box
  IN {<<r1, c1>> : r1 \in r0..(r0 + Box - 1), c1 \in c0..(c0 + Box - 1)}

\* ---------------------------------------------------------- ConstraintState
alphabet_sets == [i \in Idx |-> Alphabet]

init_block ==
  [row_avail_sets |-> alphabet_sets, col_avail_sets |-> alphabet_sets,
   sqr_avail_sets |-> alphabet_sets]

\* lines 113-117: the symbols free in row r, column c and square s
available_symbols(cs, r, c, s) ==
  cs.row_avail_sets[r] \cap cs.col_avail_sets[c] \cap cs.sqr_avail_sets[s]

\* The mutant: the square's set is left alone.
use_symbol_nosqr(cs, r, c, s, symbol) ==
  [row_avail_sets |-> [cs.row_avail_sets EXCEPT ![r] = @ \ {symbol}],
   col_avail_sets |-> [cs.col_avail_sets EXCEPT ![c] = @ \ {symbol}],
   sqr_avail_sets |-> cs.sqr_avail_sets]

\* lines 119-122; remove() finds the symbol in each of the three sets at every
\* call the program makes
use_symbol(cs, r, c, s, symbol) ==
  [row_avail_sets |-> [cs.row_avail_sets EXCEPT ![r] = @ \ {symbol}],
   col_avail_sets |-> [cs.col_avail_sets EXCEPT ![c] = @ \ {symbol}],
   sqr_avail_sets |-> [cs.sqr_avail_sets EXCEPT ![s] = @ \ {symbol}]]

\* The mutant: the symbol is not put back into the square's set.
unuse_symbol_nosqr(cs, r, c, s, symbol) ==
  [row_avail_sets |-> [cs.row_avail_sets EXCEPT ![r] = @ \cup {symbol}],
   col_avail_sets |-> [cs.col_avail_sets EXCEPT ![c] = @ \cup {symbol}],
   sqr_avail_sets |-> cs.sqr_avail_sets]

\* lines 124-127
unuse_symbol(cs, r, c, s, symbol) ==
  [row_avail_sets |-> [cs.row_avail_sets EXCEPT ![r] = @ \cup {symbol}],
   col_avail_sets |-> [cs.col_avail_sets EXCEPT ![c] = @ \cup {symbol}],
   sqr_avail_sets |-> [cs.sqr_avail_sets EXCEPT ![s] = @ \cup {symbol}]]

\* ------------------------------------------------- iteration over a Python set
\* `for symbol in <set>`: the elements in the order the run's hash seed gives.
Asc == alphabet
Desc == Reverse(alphabet)
Orders == {Asc, Desc}
iter(S, ord) == SelectSeq(ord, LAMBDA x : x \in S)

\* The mutant: list(candidate_set), the set's own iteration order.
unsorted(S, ord) == iter(S, ord)

\* sorted(candidate_set); the second parameter is the iteration order, unused
sorted(S, ord) == SelectSeq(alphabet, LAMBDA x : x \in S)

\* The mutant: the symbol is added whatever the search returned.
candidate_add_always(cset, symbol, success) == cset \cup {symbol}

\* if self.solution_exists(n + 1): candidate_set.add(symbol)
candidate_add(cset, symbol, success) == IF success THEN cset \cup {symbol} ELSE cset

\* ------------------------------------------------------------ PuzzleMinimizer
hash_row(row) ==
  LET S[i \in 0..Side] == IF i = 0 THEN 0 ELSE S[i - 1] + (i - 1) * row[i - 1]
  IN S[Side]

hash_rows(rws) ==
  LET S[i \in 0..Side] == IF i = 0 THEN 0 ELSE S[i - 1] + (i - 1) * hash_row(rws[i - 1])
  IN S[Side]

\* random.seed(seed): the library's generator is stood for by a linear
\* congruential one; like the library's, its state is a fixed function of
\* the seed.
random_seed(seed) == seed % 65537

\* the generator's next state
random_next(g) == (g * 75 + 74) % 65537

\* random.shuffle's step for index i (for i in reversed(range(1, len(x)))):
\* j = randbelow(i + 1); x[i], x[j] = x[j], x[i].  x is 1-based here.
shuffle_step(x, i, g) ==
  LET j == g % (i + 1)
  IN [x EXCEPT ![i + 1] = x[j + 1], ![j + 1] = x[i + 1]]

single_choice_available(cs, r, c, s) == Cardinality(available_symbols(cs, r, c, s)) = 1

row_position_unique(cs, rws, r, c, s, symbol) ==
  ~ \E c1 \in Idx :
      /\ c1 # c
      /\ rws[r][c1] = Blank
      /\ symbol \in available_symbols(cs, r, c1, square_containing_cell(r, c1))

col_position_unique(cs, rws, r, c, s, symbol) ==
  ~ \E r1 \in Idx :
      /\ r1 # r
      /\ rws[r1][c] = Blank
      /\ symbol \in available_symbols(cs, r1, c, square_containing_cell(r1, c))

sqr_position_unique(cs, rws, r, c, s, symbol) ==
  ~ \E rc \in cells_in_same_square(r, c) :
      /\ rc[1] # r
      /\ rc[2] # c
      /\ rws[rc[1]][rc[2]] = Blank
      /\ symbol \in available_symbols(cs, rc[1], rc[2], s)

\* ---------------------------------------------------------------------- state
VARIABLES
  message,        \* the input of encode_string, a sequence of character codes
  puzzle_mode,    \* options.puzzle_mode
  order,          \* the iteration order of the run's sets
  pc,             \* the position of the program
  bits,           \* the payload (iter_encode_string, encode_block)
  payload,        \* the payload as packed, before any block
  block_in,       \* the payload the current encode_block call was given
  rows,           \* the grid under construction or being decoded
  chunks,         \* self.chunks, reset by every encode_block
  enc_log,        \* the chunks of all blocks encoded so far, in order
  grids,          \* the grids yielded so far
  avail,          \* the ConstraintState: row/col/sqr_avail_sets
  n,              \* the cell index of the block loop
  candidate_list, \* what find_candidate_list returned last
  search,         \* what the calls of the solver made so far have been seen to do
  solver,         \* the search, when find_candidate_list is followed call by call
  removal_order,  \* puzzlify's shuffled cell order
  ridx,           \* the shuffle's index i, then puzzlify's position in removal_order
  rng,            \* the state of the random generator
  removed1,       \* stats.removed1, counted whether or not statistics are on
  removed2,       \* stats.removed2, likewise
  symbol,         \* puzzlify's symbol of the cell under consideration
  gi,             \* decode_string's position in grids
  dchunks,        \* decode_string's chunks
  k,              \* the fold's position in reversed(chunks)
  dbits,          \* decode_string's bits
  decoded,        \* decode_string's result
  run,            \* 1 in the first run of the program, 2 in a second run
  first           \* what the first run produced, once a second run has begun

vars ==
  <<message, puzzle_mode, order, pc, bits, payload, block_in, rows, chunks, enc_log,
    grids, avail, n, candidate_list, search, solver, removal_order, ridx, rng,
    removed1, removed2, symbol, gi, dchunks, k, dbits, decoded, run, first>>

\* The characters of the messages: code 0, a letter, and a code above 0x7f.
Chars == {0, 65, 128}
LongMessage == [i \in 1..LongLen |-> 65]
Messages == UNION {[1..len -> Chars] : len \in 0..MaxLen} \cup {LongMessage}
ShortMessages == {msg \in Messages : Len(msg) = 1 /\ msg[1] # 0}

blank_rows == [r \in Idx |-> [c \in Idx |-> Blank]]

\* Nothing seen yet: no call has returned.
NoCalls ==
  [restored |-> TRUE, last_true |-> TRUE, returned_true |-> 0, returned_false |-> 0,
   returned_last |-> 0]

NoRet == [state |-> "none", ok |-> FALSE]

\* No find_candidate_list is in progress.
Idle ==
  [avail |-> init_block, stack |-> <<>>, ret |-> NoRet, candidate_set |-> {},
   obs |-> NoCalls]

\* The state of a Coder before iter_encode_string is called.
Start ==
  /\ pc = "pack"
  /\ bits = <<>>
  /\ payload = <<>>
  /\ block_in = <<>>
  /\ rows = blank_rows
  /\ chunks = <<>>
  /\ enc_log = <<>>
  /\ grids = <<>>
  /\ avail = init_block
  /\ n = 0
  /\ candidate_list = <<>>
  /\ search = NoCalls
  /\ solver = Idle
  /\ removal_order = <<>>
  /\ ridx = 0
  /\ rng = 0
  /\ removed1 = 0
  /\ removed2 = 0
  /\ symbol = Blank
  /\ gi = 0
  /\ dchunks = <<>>
  /\ k = 0
  /\ dbits = <<>>
  /\ decoded = <<>>

\* Every message in both modes, in ascending iteration order; the one-character
\* messages in every order.
Init ==
  /\ message \in Messages
  /\ puzzle_mode \in BOOLEAN
  /\ order \in Orders
  /\ Len(message) # 1 => order = Asc
  /\ run = 1
  /\ first = <<>>
  /\ Start

\* One-character messages, each run twice.
InitDet ==
  /\ message \in ShortMessages
  /\ puzzle_mode \in BOOLEAN
  /\ order \in Orders
  /\ run = 1
  /\ first = <<>>
  /\ Start

\* ------------------------------------------------------- iter_encode_string
pack(msg) ==
  LET F[i \in 0..Len(msg)] ==
        IF i = 0 THEN <<>> ELSE BigMulAdd(F[i - 1], CharBase, msg[i])
  IN F[Len(msg)]

\* lines 273-278: bits = (bits << 7) | code for every character
Pack ==
  /\ pc = "pack"
  /\ IF \E i \in 1..Len(message) : message[i] > CharBase - 1
     THEN /\ pc' = "raise_SudokuError"
          /\ UNCHANGED <<bits, payload>>
     ELSE /\ bits' = pack(message)
          /\ payload' = pack(message)
          /\ pc' = "encode_loop"
  /\ UNCHANGED <<message, puzzle_mode, order, block_in, rows, chunks, enc_log, grids, avail, n,
                 candidate_list, search, solver, removal_order, ridx, rng, removed1, removed2,
                 symbol, gi, dchunks, k, dbits, decoded, run, first>>

\* line 279 with bits nonzero, then encode_block lines 157-163
EncodeBlockBegin ==
  /\ pc = "encode_loop"
  /\ bits # <<>>
  /\ avail' = init_block
  /\ rows' = blank_rows
  /\ chunks' = <<>>
  /\ block_in' = bits
  /\ n' = 0
  /\ pc' = "encode_cell"
  /\ UNCHANGED <<message, puzzle_mode, order, bits, payload, enc_log, grids, candidate_list,
                 search, solver, removal_order, ridx, rng, removed1, removed2, symbol, gi,
                 dchunks, k, dbits, decoded, run, first>>

\* line 279 with bits zero: the generator is exhausted, encode_string returns
EncodeStringReturn ==
  /\ pc = "encode_loop"
  /\ bits = <<>>
  /\ pc' = "encoded"
  /\ UNCHANGED <<message, puzzle_mode, order, bits, payload, block_in, rows, chunks, enc_log,
                 grids, avail, n, candidate_list, search, solver, removal_order, ridx, rng,
                 removed1, removed2, symbol, gi, dchunks, k, dbits, decoded, run, first>>

\* ------------------------------------------------------------------- Solver
\* The recursion of solution_exists is run on an explicit call stack.  The
\* machine `mc` has the ConstraintState, the stack of frames, the value the
\* last call returned, find_candidate_list's accumulating set, and what the
\* calls returned so far have been seen to do.
\*
\* A frame is the loop over available_symbols at cell m: the symbols in
\* iteration order, how many of them have been started, and the
\* ConstraintState at entry.  A frame at cell 81 is the base case.
Frame(m, cs) ==
  [n |-> m,
   syms |-> IF m = NumCells THEN <<>>
            ELSE iter(available_symbols(cs, cell_indices(m).r, cell_indices(m).c,
                                        cell_indices(m).s), order),
   j |-> 0,
   entry |-> cs]

\* A call of solution_exists at frame.n returns ok and leaves the sets cs.
observe(obs, frame, cs, ok) ==
  IF frame.n = NumCells THEN obs
  ELSE [restored |-> obs.restored /\ cs = frame.entry,
        last_true |-> obs.last_true /\ (frame.n = NumCells - 1 => ok),
        returned_true |-> obs.returned_true + (IF ok THEN 1 ELSE 0),
        returned_false |-> obs.returned_false + (IF ok THEN 0 ELSE 1),
        returned_last |-> obs.returned_last + (IF frame.n = NumCells - 1 THEN 1 ELSE 0)]

\* lines 134-135 and 149-150: use the next symbol and call solution_exists(n + 1)
Call(mc) ==
  LET top == mc.stack[Len(mc.stack)]
      i == cell_indices(top.n)
      cs1 == use_symbol(mc.avail, i.r, i.c, i.s, top.syms[top.j + 1])
  IN [mc EXCEPT !.avail = cs1,
                !.stack = Append([@ EXCEPT ![Len(@)].j = @ + 1], Frame(top.n + 1, cs1))]

\* The mutant: `return True` is missing, the call falls off its end.
returns_none(frame) == FALSE

\* what a call that goes no further returns: True at n == 81 (line 144),
\* False when its loop is exhausted (line 154)
returns(frame) == frame.n = NumCells

\* lines 142-144 (n == 81: return True) and line 154 (loop exhausted: return False)
Return(mc) ==
  LET top == mc.stack[Len(mc.stack)]
  IN [mc EXCEPT !.ret = [state |-> "returned", ok |-> returns(top)],
                !.stack = SubSeq(@, 1, Len(@) - 1),
                !.obs = observe(@, top, mc.avail, returns(top))]

\* The caller after the call.  In find_candidate_list (lines 135-137): add the
\* symbol on success, unuse it, go on.  In solution_exists (lines 150-153):
\* unuse the symbol, return True on success, else go on.
Resume(mc) ==
  LET top == mc.stack[Len(mc.stack)]
      i == cell_indices(top.n)
      cs1 == unuse_symbol(mc.avail, i.r, i.c, i.s, top.syms[top.j])
  IN IF Len(mc.stack) = 1
     THEN [mc EXCEPT !.avail = cs1,
                     !.candidate_set = candidate_add(@, top.syms[top.j], mc.ret.ok),
                     !.ret = NoRet]
     ELSE IF mc.ret.ok
          THEN [mc EXCEPT !.avail = cs1,
                          !.ret = [state |-> "returned", ok |-> TRUE],
                          !.stack = SubSeq(@, 1, Len(@) - 1),
                          !.obs = observe(@, top, cs1, TRUE)]
          ELSE [mc EXCEPT !.avail = cs1, !.ret = NoRet]

\* find_candidate_list's loop is over: line 138 is about to return
Done(mc) ==
  /\ mc.ret.state = "none"
  /\ Len(mc.stack) = 1
  /\ mc.stack[1].j >= Len(mc.stack[1].syms)

\* the next step of the machine
Step(mc) ==
  IF mc.ret.state = "returned" THEN Resume(mc)
  ELSE IF /\ mc.stack[Len(mc.stack)].n < NumCells
          /\ mc.stack[Len(mc.stack)].j < Len(mc.stack[Len(mc.stack)].syms)
       THEN Call(mc)
       ELSE Return(mc)

RECURSIVE run_steps(_, _)
\* up to 2^e steps of the machine, stopping when it is done
run_steps(mc, e) ==
  IF Done(mc) THEN mc
  ELSE IF e = 0 THEN Step(mc)
       ELSE run_steps(run_steps(mc, e - 1), e - 1)

RECURSIVE run_machine(_, _)
\* the machine run until it is done
run_machine(mc, e) == IF Done(mc) THEN mc ELSE run_machine(run_steps(mc, e), e + 1)

\* lines 130-133: find_candidate_list(m) is entered with the sets cs
enter(cs, m, obs) ==
  [avail |-> cs, stack |-> <<Frame(m, cs)>>, ret |-> NoRet, candidate_set |-> {},
   obs |-> obs]

\* line 138: the sorted list find_candidate_list returns, the sets as it
\* leaves them, and what its calls were seen to do
leave(final) ==
  [list |-> sorted(final.candidate_set, order),
   avail |-> final.avail,
   obs |-> [final.obs EXCEPT !.restored = @ /\ final.avail = final.stack[1].entry]]

\* find_candidate_list(m) called with the sets cs, from entry to return
find_candidate_list(cs, m, obs) == leave(run_machine(enter(cs, m, obs), 0))

\* find_candidate_list followed call by call: it is entered (lines 165-166, 259-260)
FindCandidateList ==
  /\ pc \in {"encode_cell", "decode_cell"}
  /\ n < NumCells
  /\ solver = Idle
  /\ solver' = enter(avail, n, search)
  /\ UNCHANGED <<message, puzzle_mode, order, pc, bits, payload, block_in, rows, chunks,
                 enc_log, grids, avail, n, candidate_list, search, removal_order, ridx, rng,
                 removed1, removed2, symbol, gi, dchunks, k, dbits, decoded, run, first>>

\* one call, return or resumption of the search in progress
SolverStep ==
  /\ solver # Idle
  /\ ~ Done(solver)
  /\ solver' = Step(solver)
  /\ search' = Step(solver).obs
  /\ UNCHANGED <<message, puzzle_mode, order, pc, bits, payload, block_in, rows, chunks,
                 enc_log, grids, avail, n, candidate_list, removal_order, ridx, rng, removed1,
                 removed2, symbol, gi, dchunks, k, dbits, decoded, run, first>>

\* ------------------------------------------------------------- encode_block
\* lines 167-181, the cell n once find_candidate_list has returned fcl; m = 0
\* makes divmod raise
encode_cell(fcl) ==
  /\ LET m == Len(fcl.list)
         i == cell_indices(n)
     IN /\ candidate_list' = fcl.list
        /\ search' = fcl.obs
        /\ IF m = 0
           THEN /\ pc' = "raise_ZeroDivisionError"
                /\ avail' = fcl.avail
                /\ UNCHANGED <<bits, chunks, enc_log, rows, n>>
           ELSE LET dm == BigDivMod(bits, m)
                    sym == fcl.list[dm.r + 1]
                IN /\ bits' = dm.q
                   /\ chunks' = Append(chunks, <<m, dm.r>>)
                   /\ enc_log' = Append(enc_log, <<m, dm.r>>)
                   /\ rows' = [rows EXCEPT ![i.r][i.c] = sym]
                   /\ avail' = use_symbol(fcl.avail, i.r, i.c, i.s, sym)
                   /\ n' = n + 1
                   /\ pc' = "encode_cell"
  /\ UNCHANGED <<message, puzzle_mode, order, payload, block_in, grids, removal_order, ridx,
                 rng, removed1, removed2, symbol, gi, dchunks, k, dbits, decoded, run, first>>

\* lines 165-181, one cell of the loop
EncodeCell ==
  /\ pc = "encode_cell"
  /\ n < NumCells
  /\ solver = Idle
  /\ \E fcl \in {find_candidate_list(avail, n, search)} : encode_cell(fcl)
  /\ UNCHANGED solver

\* lines 167-181, after a find_candidate_list followed call by call
EncodeCellAfterSearch ==
  /\ pc = "encode_cell"
  /\ solver # Idle
  /\ Done(solver)
  /\ encode_cell(leave(solver))
  /\ solver' = Idle

\* lines 185-186 and 226-228: puzzle mode, the block is complete
PuzzlifyBegin ==
  /\ pc = "encode_cell"
  /\ n = NumCells
  /\ puzzle_mode
  /\ rng' = random_next(random_seed(hash_rows(rows)))
  /\ removal_order' = [i \in 1..NumCells |-> i - 1]
  /\ ridx' = NumCells - 1
  /\ pc' = "shuffle"
  /\ UNCHANGED <<message, puzzle_mode, order, bits, payload, block_in, rows, chunks, enc_log,
                 grids, avail, n, candidate_list, search, solver, removed1, removed2, symbol,
                 gi, dchunks, k, dbits, decoded, run, first>>

\* line 229: one step of random.shuffle(removal_order); after the step for
\* index 1 the loop of line 230 starts
Shuffle ==
  /\ pc = "shuffle"
  /\ removal_order' = shuffle_step(removal_order, ridx, rng)
  /\ rng' = random_next(rng)
  /\ IF ridx > 1
     THEN /\ ridx' = ridx - 1
          /\ pc' = "shuffle"
     ELSE /\ ridx' = 1
          /\ pc' = "puzzlify"
  /\ UNCHANGED <<message, puzzle_mode, order, bits, payload, block_in, rows, chunks, enc_log,
                 grids, avail, n, candidate_list, search, solver, removed1, removed2, symbol,
                 gi, dchunks, k, dbits, decoded, run, first>>

\* lines 231-234: blank the cell under consideration and unuse its symbol
PuzzlifyBlank ==
  /\ pc = "puzzlify"
  /\ ridx <= NumCells
  /\ LET i == cell_indices(removal_order[ridx])
     IN /\ rows' = [rows EXCEPT ![i.r][i.c] = Star]
        /\ avail' = unuse_symbol(avail, i.r, i.c, i.s, rows[i.r][i.c])
        /\ symbol' = rows[i.r][i.c]
  /\ pc' = "puzzlify_rules"
  /\ UNCHANGED <<message, puzzle_mode, order, bits, payload, block_in, chunks, enc_log, grids,
                 n, candidate_list, search, solver, removal_order, ridx, rng, removed1,
                 removed2, gi, dchunks, k, dbits, decoded, run, first>>

\* lines 238-253: rule 1, rule 2, or the symbol is put back
PuzzlifyDecide ==
  /\ pc = "puzzlify_rules"
  /\ LET i == cell_indices(removal_order[ridx])
     IN IF single_choice_available(avail, i.r, i.c, i.s)
        THEN /\ rows' = [rows EXCEPT ![i.r][i.c] = Blank]
             /\ removed1' = removed1 + 1
             /\ UNCHANGED <<removed2, avail>>
        ELSE IF \/ row_position_unique(avail, rows, i.r, i.c, i.s, symbol)
                \/ col_position_unique(avail, rows, i.r, i.c, i.s, symbol)
                \/ sqr_position_unique(avail, rows, i.r, i.c, i.s, symbol)
             THEN /\ rows' = [rows EXCEPT ![i.r][i.c] = Blank]
                  /\ removed2' = removed2 + 1
                  /\ UNCHANGED <<removed1, avail>>
             ELSE /\ rows' = [rows EXCEPT ![i.r][i.c] = symbol]
                  /\ avail' = use_symbol(avail, i.r, i.c, i.s, symbol)
                  /\ UNCHANGED <<removed1, removed2>>
  /\ ridx' = ridx + 1
  /\ pc' = "puzzlify"
  /\ UNCHANGED <<message, puzzle_mode, order, bits, payload, block_in, chunks, enc_log, grids,
                 n, candidate_list, search, solver, removal_order, rng, symbol, gi, dchunks, k,
                 dbits, decoded, run, first>>

\* line 187 and line 281: encode_block returns (rows, bits), the grid is yielded
YieldBlock ==
  /\ IF puzzle_mode THEN pc = "puzzlify" /\ ridx > NumCells
                    ELSE pc = "encode_cell" /\ n = NumCells
  /\ grids' = Append(grids, rows)
  /\ pc' = "encode_loop"
  /\ UNCHANGED <<message, puzzle_mode, order, bits, payload, block_in, rows, chunks, enc_log,
                 avail, n, candidate_list, search, solver, removal_order, ridx, rng, removed1,
                 removed2, symbol, gi, dchunks, k, dbits, decoded, run, first>>

\* ------------------------------------------------------------ decode_string
\* test(), line 321: decode_string(grids) on what encode_string returned
DecodeString ==
  /\ pc = "encoded"
  /\ gi' = 1
  /\ dchunks' = <<>>
  /\ pc' = "decode_loop"
  /\ UNCHANGED <<message, puzzle_mode, order, bits, payload, block_in, rows, chunks, enc_log,
                 grids, avail, n, candidate_list, search, solver, removal_order, ridx, rng,
                 removed1, removed2, symbol, k, dbits, decoded, run, first>>

\* line 288 with a grid left, then decode_block line 256
DecodeBlockBegin ==
  /\ pc = "decode_loop"
  /\ gi <= Len(grids)
  /\ rows' = grids[gi]
  /\ avail' = init_block
  /\ n' = 0
  /\ pc' = "decode_cell"
  /\ UNCHANGED <<message, puzzle_mode, order, bits, payload, block_in, chunks, enc_log, grids,
                 candidate_list, search, solver, removal_order, ridx, rng, removed1, removed2,
                 symbol, gi, dchunks, k, dbits, decoded, run, first>>

\* candidate_list.index(symbol), for a symbol that is in the list
index(list, sym) == CHOOSE d \in 0..(Len(list) - 1) : list[d + 1] = sym

\* The mutant: a symbol that is no candidate gets digit 0 and decoding goes on.
decode_cell_lenient(fcl) ==
  /\ LET m == Len(fcl.list)
         i == cell_indices(n)
         sym == rows[i.r][i.c]
     IN /\ candidate_list' = fcl.list
        /\ search' = fcl.obs
        /\ dchunks' = Append(dchunks, <<m, IF \E d \in 1..m : fcl.list[d] = sym
                                           THEN index(fcl.list, sym) ELSE 0>>)
        /\ avail' = use_symbol(fcl.avail, i.r, i.c, i.s, sym)
        /\ n' = n + 1
        /\ pc' = "decode_cell"
  /\ UNCHANGED <<message, puzzle_mode, order, bits, payload, block_in, rows, chunks, enc_log,
                 grids, removal_order, ridx, rng, removed1, removed2, symbol, gi, k, dbits,
                 decoded, run, first>>

\* lines 261-266, the cell n once find_candidate_list has returned fcl;
\* index() raises ValueError when the grid's symbol is not a candidate
decode_cell(fcl) ==
  /\ LET m == Len(fcl.list)
         i == cell_indices(n)
         sym == rows[i.r][i.c]
     IN /\ candidate_list' = fcl.list
        /\ search' = fcl.obs
        /\ IF \E d \in 1..m : fcl.list[d] = sym
           THEN /\ dchunks' = Append(dchunks, <<m, index(fcl.list, sym)>>)
                /\ avail' = use_symbol(fcl.avail, i.r, i.c, i.s, sym)
                /\ n' = n + 1
                /\ pc' = "decode_cell"
           ELSE /\ pc' = "raise_ValueError"
                /\ avail' = fcl.avail
                /\ UNCHANGED <<dchunks, n>>
  /\ UNCHANGED <<message, puzzle_mode, order, bits, payload, block_in, rows, chunks, enc_log,
                 grids, removal_order, ridx, rng, removed1, removed2, symbol, gi, k, dbits,
                 decoded, run, first>>

\* lines 257-266, one cell of the loop
DecodeCell ==
  /\ pc = "decode_cell"
  /\ n < NumCells
  /\ solver = Idle
  /\ \E fcl \in {find_candidate_list(avail, n, search)} : decode_cell(fcl)
  /\ UNCHANGED solver

\* lines 261-266, after a find_candidate_list followed call by call
DecodeCellAfterSearch ==
  /\ pc = "decode_cell"
  /\ solver # Idle
  /\ Done(solver)
  /\ decode_cell(leave(solver))
  /\ solver' = Idle

\* decode_block returns; line 288 takes the next grid
DecodeBlockEnd ==
  /\ pc = "decode_cell"
  /\ n = NumCells
  /\ gi' = gi + 1
  /\ pc' = "decode_loop"
  /\ UNCHANGED <<message, puzzle_mode, order, bits, payload, block_in, rows, chunks, enc_log,
                 grids, avail, n, candidate_list, search, solver, removal_order, ridx, rng,
                 removed1, removed2, symbol, dchunks, k, dbits, decoded, run, first>>

\* line 290: bits = 0, before the loop over reversed(chunks)
FoldBegin ==
  /\ pc = "decode_loop"
  /\ gi > Len(grids)
  /\ dbits' = <<>>
  /\ k' = Len(dchunks)
  /\ pc' = "fold"
  /\ UNCHANGED <<message, puzzle_mode, order, bits, payload, block_in, rows, chunks, enc_log,
                 grids, avail, n, candidate_list, search, solver, removal_order, ridx, rng,
                 removed1, removed2, symbol, gi, dchunks, decoded, run, first>>

\* The mutant: the chunks are folded first to last.
fold_chunk_forward(chs, pos) == chs[Len(chs) + 1 - pos]

\* the chunk the loop over reversed(chunks) takes when pos chunks are left
fold_chunk(chs, pos) == chs[pos]

\* lines 291-292: bits = bits * m + digit
FoldStep ==
  /\ pc = "fold"
  /\ k > 0
  /\ dbits' = BigMulAdd(dbits, fold_chunk(dchunks, k)[1], fold_chunk(dchunks, k)[2])
  /\ k' = k - 1
  /\ UNCHANGED <<message, puzzle_mode, order, pc, bits, payload, block_in, rows, chunks,
                 enc_log, grids, avail, n, candidate_list, search, solver, removal_order, ridx,
                 rng, removed1, removed2, symbol, gi, dchunks, decoded, run, first>>

RECURSIVE unpack_loop(_)
\* lines 294-296: the low seven bits first
unpack_loop(b) ==
  IF b = <<>> THEN <<>>
  ELSE <<BigDivMod(b, CharBase).r>> \o unpack_loop(BigDivMod(b, CharBase).q)

\* The mutant: the characters are joined in the order they were extracted.
unpack_unreversed(b) == unpack_loop(b)

\* lines 293-297: "".join(reversed(chars))
unpack(b) == Reverse(unpack_loop(b))

\* lines 293-297: decode_string returns the message
Unpack ==
  /\ pc = "fold"
  /\ k = 0
  /\ decoded' = unpack(dbits)
  /\ pc' = "decoded"
  /\ UNCHANGED <<message, puzzle_mode, order, bits, payload, block_in, rows, chunks, enc_log,
                 grids, avail, n, candidate_list, search, solver, removal_order, ridx, rng,
                 removed1, removed2, symbol, gi, dchunks, k, dbits, run, first>>

\* ---------------------------------------------------------------- second run
Finished == pc \in {"decoded", "raise_ValueError", "raise_ZeroDivisionError", "raise_SudokuError"}

Output ==
  [grids |-> grids, enc_log |-> enc_log, removed1 |-> removed1, removed2 |-> removed2,
   decoded |-> decoded, pc |-> pc]

\* The program is run again on the same message with the same puzzle flag, in
\* a process whose sets iterate in another order.
Rerun ==
  /\ Finished
  /\ run = 1
  /\ run' = 2
  /\ first' = <<Output>>
  /\ order' \in Orders \ {order}
  /\ pc' = "pack"
  /\ bits' = <<>>
  /\ payload' = <<>>
  /\ block_in' = <<>>
  /\ rows' = blank_rows
  /\ chunks' = <<>>
  /\ enc_log' = <<>>
  /\ grids' = <<>>
  /\ avail' = init_block
  /\ n' = 0
  /\ candidate_list' = <<>>
  /\ search' = NoCalls
  /\ solver' = Idle
  /\ removal_order' = <<>>
  /\ ridx' = 0
  /\ rng' = 0
  /\ removed1' = 0
  /\ removed2' = 0
  /\ symbol' = Blank
  /\ gi' = 0
  /\ dchunks' = <<>>
  /\ k' = 0
  /\ dbits' = <<>>
  /\ decoded' = <<>>
  /\ UNCHANGED <<message, puzzle_mode>>

\* --------------------------------------------------------------- the program
Next ==
  \/ Pack
  \/ EncodeBlockBegin
  \/ EncodeStringReturn
  \/ EncodeCell
  \/ PuzzlifyBegin
  \/ Shuffle
  \/ PuzzlifyBlank
  \/ PuzzlifyDecide
  \/ YieldBlock
  \/ DecodeString
  \/ DecodeBlockBegin
  \/ DecodeCell
  \/ DecodeBlockEnd
  \/ FoldBegin
  \/ FoldStep
  \/ Unpack

Spec == Init /\ [][Next]_vars

NextDet == Next \/ Rerun

SpecDet == InitDet /\ [][NextDet]_vars

\* The program with every find_candidate_list followed call by call.
NextSteps ==
  \/ Pack
  \/ EncodeBlockBegin
  \/ EncodeStringReturn
  \/ FindCandidateList
  \/ SolverStep
  \/ EncodeCellAfterSearch
  \/ PuzzlifyBegin
  \/ Shuffle
  \/ PuzzlifyBlank
  \/ PuzzlifyDecide
  \/ YieldBlock
  \/ DecodeString
  \/ DecodeBlockBegin
  \/ DecodeCellAfterSearch
  \/ DecodeBlockEnd
  \/ FoldBegin
  \/ FoldStep
  \/ Unpack

SpecSteps == InitDet /\ [][NextSteps]_vars

\* ------------------------------------------------------------------- claims
IsPrefix(a, b) == Len(a) <= Len(b) /\ SubSeq(b, 1, Len(a)) = a

RECURSIVE strip_nul(_)
strip_nul(msg) == IF msg = <<>> \/ msg[1] # 0 THEN msg ELSE strip_nul(Tail(msg))

HasBlank(g) == \E r \in Idx, c \in Idx : g[r][c] = Blank

FirstBlank(g) ==
  CHOOSE m \in 0..(NumCells - 1) :
    /\ g[m \div Side][m % Side] = Blank
    /\ \A l \in 0..(m - 1) : g[l \div Side][l % Side] # Blank

\* C1 as stated: with puzzle mode off, every message whose encoding has at
\* least one grid decodes to itself, code 0 in any position included.
RoundTripAnyMessage ==
  (pc = "decoded" /\ ~ puzzle_mode /\ Len(grids) >= 1) => decoded = message

\* C1 as amended: with puzzle mode off, decode(encode(m)) is m without its
\* leading code-0 characters; it is m when m is nonempty and does not begin
\* with code 0 (code 0 elsewhere in m is kept).
RoundTripNoLeadingNul ==
  (pc = "decoded" /\ ~ puzzle_mode) =>
    /\ decoded = strip_nul(message)
    /\ (Len(grids) >= 1 /\ message[1] # 0) => decoded = message

RoundTripNoLeadingNulWitness ==
  /\ pc = "decoded"
  /\ ~ puzzle_mode
  /\ Len(grids) >= 1
  /\ message[1] # 0
  /\ \E i \in 2..Len(message) : message[i] = 0
  /\ decoded = message

IsSolution(g) ==
  /\ \A r \in Idx : \A a \in Alphabet : Cardinality({c \in Idx : g[r][c] = a}) = 1
  /\ \A c \in Idx : \A a \in Alphabet : Cardinality({r \in Idx : g[r][c] = a}) = 1
  /\ \A q \in Idx : \A a \in Alphabet :
       Cardinality({rc \in Idx \X Idx :
                      square_containing_cell(rc[1], rc[2]) = q /\ g[rc[1]][rc[2]] = a}) = 1

\* C2: with puzzle mode off, the grid encode_block returns, and so every grid
\* yielded, has all 81 cells filled with each alphabet symbol exactly once in
\* every row, every column and every 3x3 square.
GridValidity ==
  ~ puzzle_mode =>
    /\ (pc = "encode_cell" /\ n = NumCells) => IsSolution(rows)
    /\ (pc = "encode_loop" /\ grids # <<>>) => IsSolution(grids[Len(grids)])

GridValidityWitness ==
  /\ ~ puzzle_mode
  /\ pc = "encode_loop"
  /\ Len(grids) >= 2
  /\ IsSolution(grids[1])
  /\ IsSolution(grids[2])

\* C3: with puzzle mode off, decode_block over the grids of encode, in order,
\* yields the chunks encoding recorded cell by cell, and folding them last to
\* first with payload * m + digit gives back the payload, also when it spans
\* several blocks.
PayloadRecovery ==
  ~ puzzle_mode =>
    /\ pc = "decode_cell" => IsPrefix(dchunks, enc_log)
    /\ pc \in {"fold", "decoded"} => dchunks = enc_log
    /\ pc = "decoded" => dbits = payload

PayloadRecoveryWitness ==
  /\ ~ puzzle_mode
  /\ pc = "decoded"
  /\ Len(grids) >= 2
  /\ payload # <<>>
  /\ dchunks = enc_log
  /\ dbits = payload

\* C4: whenever find_candidate_list has returned, in encode_block at any cell
\* and in decode_block on a grid of this codec, the list is not empty, every
\* recorded radix is at least 1 and the divmod never divides by 0.
NonEmptyCandidateList ==
  /\ search # NoCalls => Len(candidate_list) >= 1
  /\ pc # "raise_ZeroDivisionError"
  /\ \A i \in 1..Len(chunks) : chunks[i][1] >= 1
  /\ \A i \in 1..Len(dchunks) : dchunks[i][1] >= 1

NonEmptyCandidateListWitness ==
  /\ pc = "decode_cell"
  /\ n = NumCells
  /\ Len(dchunks) = 2 * NumCells
  /\ Len(candidate_list) = 1
  /\ \E i \in 1..Len(dchunks) : dchunks[i][1] > 1

\* C5: a second run on the same message with the same puzzle flag, iterating
\* its sets in another order, produces the same chunks, the same grids and the
\* same Rule-1 and Rule-2 removal counts as the first.
Determinism ==
  run = 2 =>
    /\ pc = "encode_cell" => IsPrefix(enc_log, first[1].enc_log)
    /\ pc = "encode_loop" => IsPrefix(grids, first[1].grids)
    /\ Finished => Output = first[1]

DeterminismWitness ==
  /\ run = 2
  /\ Finished
  /\ puzzle_mode
  /\ removed1 > 0
  /\ removed2 > 0
  /\ order # Asc
  /\ Len(grids) >= 1
  /\ Output = first[1]

\* C6: decode_block on a grid with a blank cell never returns normally: it
\* raises at the first blank cell, with no chunk appended for that cell or a
\* later one, and decode_string produces no message.
DecodePrecondition ==
  /\ pc \in {"fold", "decoded"} => \A i \in 1..Len(grids) : ~ HasBlank(grids[i])
  /\ (pc = "decode_cell" /\ HasBlank(rows)) =>
       /\ n <= FirstBlank(rows)
       /\ Len(dchunks) <= (gi - 1) * NumCells + FirstBlank(rows)
  /\ (pc = "raise_ValueError" /\ HasBlank(rows)) =>
       /\ n = FirstBlank(rows)
       /\ Len(dchunks) = (gi - 1) * NumCells + n
       /\ decoded = <<>>

DecodePreconditionWitness ==
  /\ pc = "raise_ValueError"
  /\ HasBlank(rows)
  /\ n = FirstBlank(rows)
  /\ n > 0
  /\ Len(dchunks) = n

\* C7: every call of solution_exists, whether it returns True at once on the
\* first success or False, and every call of find_candidate_list, returns with
\* the row, column and square sets as they were when it was entered.
SearchRestoresState == search.restored

SearchRestoresStateWitness ==
  /\ search.restored
  /\ search.returned_true > 0
  /\ search.returned_false > 0
  /\ pc = "encode_cell"
  /\ n >= 1
  /\ avail # init_block

\* C8: every call solution_exists(80) made from encode_block, decode_block or
\* find_candidate_list returns True.
LastCellCompletable == search.last_true

\* solution_exists(80) has just returned True to solution_exists(79)
LastCellCompletableWitness ==
  /\ search.last_true
  /\ search.returned_last > 0
  /\ solver # Idle
  /\ solver.ret.state = "returned"
  /\ solver.ret.ok
  /\ solver.stack[Len(solver.stack)].n = NumCells - 2

\* The nine cells of the 3x3 square that contains (r, c).
cells_of_square(r, c) ==
  {<<r1, c1>> \in Idx \X Idx : r1 \div Box = r \div Box /\ c1 \div Box = c \div Box}

\* The square-scope check as the claim has it: v is in the available set of no
\* other still-blank cell of the square that contains (r, c).
sqr_position_unique_intended(cs, rws, r, c, s, v) ==
  ~ \E rc \in cells_of_square(r, c) :
      /\ rc # <<r, c>>
      /\ rws[rc[1]][rc[2]] = Blank
      /\ v \in available_symbols(cs, rc[1], rc[2], s)

\* puzzlify reaches the square-scope check: rule 1 and the row and column
\* scopes of rule 2 have all failed
SqrScopeChecked ==
  /\ pc = "puzzlify_rules"
  /\ LET i == cell_indices(removal_order[ridx])
     IN /\ ~ single_choice_available(avail, i.r, i.c, i.s)
        /\ ~ row_position_unique(avail, rows, i.r, i.c, i.s, symbol)
        /\ ~ col_position_unique(avail, rows, i.r, i.c, i.s, symbol)

\* C9: in puzzlify the square-scope check of rule 2 returns true if and only
\* if v is absent from the available set of every other still-blank cell of
\* the 3x3 square containing (r, c).
SquareScopeRule ==
  SqrScopeChecked =>
    LET i == cell_indices(removal_order[ridx])
    IN sqr_position_unique(avail, rows, i.r, i.c, i.s, symbol)
         <=> sqr_position_unique_intended(avail, rows, i.r, i.c, i.s, symbol)

\* C10: for a payload > 0, every encode_block call returns a payload strictly
\* smaller than it was given (already after its first cell), and the loop
\* stops with payload 0.
EncodeTerminates ==
  /\ (pc \in {"encode_cell", "puzzlify", "puzzlify_rules"} /\ n >= 1) => BigLess(bits, block_in)
  /\ pc = "encoded" => bits = <<>>

EncodeTerminatesWitness ==
  /\ pc = "encoded"
  /\ payload # <<>>
  /\ Len(grids) >= 2
  /\ bits = <<>>

====
